---- MODULE Spec2Model ----
(***************************************************************************)
(* A model of scripts/generators/best_practices_generator.py: the          *)
(* BestPracticesOutputGenerator, which turns a Registry (ordered Commands  *)
(* and Extensions) into best_practices.h or best_practices.cpp.            *)
(*                                                                         *)
(* Text is modelled as a sequence of tokens (each token a piece of the     *)
(* string), so that slicing, split, replace and join act on it as the      *)
(* Python operations act on characters.  A Python list of strings is a     *)
(* sequence of tokens; a list of appended strings (out) is a sequence of   *)
(* token sequences.                                                        *)
(***************************************************************************)
EXTENDS Naturals, Sequences, FiniteSets, TLC

\* ------------------------------------------------------------------ bounds
MaxCmds == 2
MaxExts == 2
MaxRuns == 2

\* ------------------------------------------------------------ Python values
\* Python's None for an optional string or list.
None == <<"None">>

InSeq(x, s) == \E k \in 1..Len(s) : s[k] = x

\* s[n:]
Drop(s, n) == SubSeq(s, n + 1, Len(s))

\* ''.join(chunks)
RECURSIVE Flatten(_)
Flatten(chunks) ==
    IF chunks = <<>> THEN <<>> ELSE Head(chunks) \o Flatten(Tail(chunks))

\* sep.join(list) for a list of one-token strings
RECURSIVE Join(_, _)
Join(list, sep) ==
    IF list = <<>> THEN <<>>
    ELSE IF Len(list) = 1 THEN <<list[1]>>
    ELSE <<list[1]>> \o sep \o Join(Tail(list), sep)

StartsAt(s, pat, k) ==
    /\ k + Len(pat) - 1 <= Len(s)
    /\ SubSeq(s, k, k + Len(pat) - 1) = pat

\* s.find(pat, k), 1-based, 0 when absent
Find(s, pat, k) ==
    LET hits == { j \in k..(Len(s) + 1 - Len(pat)) : StartsAt(s, pat, j) }
    IN  IF hits = {} THEN 0 ELSE CHOOSE j \in hits : \A h \in hits : j <= h

\* s.replace(old, new): every non-overlapping occurrence, left to right
RECURSIVE Replace(_, _, _)
Replace(s, old, new) ==
    LET k == Find(s, old, 1) IN
    IF k = 0 THEN s
    ELSE SubSeq(s, 1, k - 1) \o new
         \o Replace(SubSeq(s, k + Len(old), Len(s)), old, new)

\* s.split(sep)
RECURSIVE Split(_, _)
Split(s, sep) ==
    LET k == Find(s, sep, 1) IN
    IF k = 0 THEN <<s>>
    ELSE <<SubSeq(s, 1, k - 1)>> \o Split(SubSeq(s, k + Len(sep), Len(s)), sep)

\* ------------------------------------------------------- the fixed lists
Vk(rest) == <<"v", "k", rest>>

InitialNoAutogenList ==
    << Vk("EnumerateInstanceVersion"),
       Vk("CreateValidationCacheEXT"),
       Vk("DestroyValidationCacheEXT"),
       Vk("MergeValidationCachesEXT"),
       Vk("GetValidationCacheDataEXT") >>

extra_parameter_list ==
    << Vk("CreateShaderModule"),
       Vk("CreateShadersEXT"),
       Vk("CreateGraphicsPipelines"),
       Vk("CreateComputePipelines"),
       Vk("AllocateDescriptorSets"),
       Vk("CreateRayTracingPipelinesNV"),
       Vk("CreateRayTracingPipelinesKHR") >>

manual_postcallrecord_list ==
    << Vk("AllocateDescriptorSets"),
       Vk("QueuePresentKHR"),
       Vk("QueueBindSparse"),
       Vk("CreateGraphicsPipelines"),
       Vk("GetPhysicalDeviceSurfaceCapabilitiesKHR"),
       Vk("GetPhysicalDeviceSurfaceCapabilities2KHR"),
       Vk("GetPhysicalDeviceSurfaceCapabilities2EXT"),
       Vk("GetPhysicalDeviceSurfacePresentModesKHR"),
       Vk("GetPhysicalDeviceSurfaceFormatsKHR"),
       Vk("GetPhysicalDeviceSurfaceFormats2KHR"),
       Vk("GetPhysicalDeviceDisplayPlanePropertiesKHR"),
       Vk("GetSwapchainImagesKHR"),
       Vk("CreateComputePipelines"),
       Vk("CmdPipelineBarrier"),
       Vk("QueueSubmit") >>

\* --------------------------------------------------------- hasNonVkSuccess
\* A variant that only counts the codes.
hasNonVkSuccess_CountOnly(successCodes) ==
    IF successCodes = None \/ Len(successCodes) = 0 THEN FALSE
    ELSE Len(successCodes) > 1

hasNonVkSuccess(successCodes) ==
    IF successCodes = None \/ Len(successCodes) = 0 THEN FALSE
    ELSE Len(successCodes) > 1 \/ ~InSeq("VK_SUCCESS", successCodes)

\* ------------------------------------------------------------ the Registry
\* The call-signature text of a Command as the registry parser renders it:
\* "VKAPI_ATTR <type> VKAPI_CALL vkName(T a, T b);".  marker = FALSE gives a
\* structurally broken signature without the "VKAPI_CALL " marker.
RECURSIVE ParamDecls(_)
ParamDecls(params) ==
    IF params = <<>> THEN <<>>
    ELSE IF Len(params) = 1 THEN <<"T ", params[1]>>
    ELSE <<"T ", params[1], ", ">> \o ParamDecls(Tail(params))

CPrototype(name, returnType, params, marker) ==
    <<"VKAPI_ATTR ", returnType, " ">>
    \o (IF marker THEN <<"VKAPI_CALL ">> ELSE <<>>)
    \o name \o <<"(">> \o ParamDecls(params) \o <<")", ";">>

Command(name, returnType, params, successCodes, errorCodes, alias, protect, marker) ==
    [ name         |-> name,
      returnType   |-> returnType,
      params       |-> params,
      successCodes |-> successCodes,
      errorCodes   |-> errorCodes,
      alias        |-> alias,
      protect      |-> protect,
      cPrototype   |-> CPrototype(name, returnType, params, marker) ]

Extension(name, promotedTo, obsoletedBy, deprecatedBy, specialUse) ==
    [ name         |-> name,
      promotedTo   |-> promotedTo,
      obsoletedBy  |-> obsoletedBy,
      deprecatedBy |-> deprecatedBy,
      specialUse   |-> specialUse ]

G1 == <<"VK_USE_PLATFORM_WIN32_KHR">>
G2 == <<"VK_ENABLE_BETA_EXTENSIONS">>

ParamsOf(name) ==
    CASE name = Vk("EnumerateInstanceVersion") -> <<"pApiVersion">>
      [] name = Vk("CmdPipelineBarrier")       -> <<"commandBuffer">>
      [] name = Vk("QueueSubmit")              -> <<"queue", "fence">>
      [] name = Vk("CreateFence")              -> <<"device", "pFence">>
      [] name = Vk("CreateShaderModule")       -> <<"device", "pCreateInfo", "pShaderModule">>
      [] OTHER                                 -> <<"device", "pDescriptorSets">>

SuccessChoices ==
    { None, <<>>, <<"VK_SUCCESS">>, <<"VK_INCOMPLETE">>, <<"VK_SUCCESS", "VK_INCOMPLETE">> }

ErrorChoices == { None, <<"VK_ERROR_DEVICE_LOST">> }

\* Every combination of the fields the generator reads, for a Registry of one
\* Command.
FullPool ==
    { Command(n, rt, ParamsOf(n), sc, ec, al, g, mk) :
        n \in { Vk("EnumerateInstanceVersion"), Vk("CreateFence"), Vk("QueueSubmit"),
                Vk("CreateShaderModule"), Vk("AllocateDescriptorSets") },
        rt \in {"VkResult", "void"},
        sc \in SuccessChoices,
        ec \in ErrorChoices,
        al \in { None, Vk("QueueSubmit2") },
        g  \in { None, G1 },
        mk \in BOOLEAN }

\* The Commands of the Registries of several Commands.
CorePool ==
    { Command(Vk("CreateFence"), "VkResult", ParamsOf(Vk("CreateFence")),
              <<"VK_SUCCESS">>, <<"VK_ERROR_DEVICE_LOST">>, None, g, TRUE) :
        g \in {None, G1, G2} }
    \cup
    { Command(Vk("QueueSubmit"), "VkResult", ParamsOf(Vk("QueueSubmit")),
              <<"VK_SUCCESS", "VK_INCOMPLETE">>, <<"VK_ERROR_DEVICE_LOST">>, None, g, TRUE) :
        g \in {None, G1, G2} }
    \cup
    { Command(Vk("CreateShaderModule"), "VkResult", ParamsOf(Vk("CreateShaderModule")),
              <<"VK_INCOMPLETE">>, None, None, g, TRUE) :
        g \in {None, G1, G2} }
    \cup
    { Command(Vk("AllocateDescriptorSets"), "VkResult", ParamsOf(Vk("AllocateDescriptorSets")),
              <<"VK_SUCCESS">>, <<"VK_ERROR_DEVICE_LOST">>, Vk("CreateFence"), g, TRUE) :
        g \in {None, G1} }
    \cup
    { Command(Vk("CmdPipelineBarrier"), "void", ParamsOf(Vk("CmdPipelineBarrier")),
              None, None, None, G1, TRUE),
      Command(Vk("EnumerateInstanceVersion"), "VkResult", ParamsOf(Vk("EnumerateInstanceVersion")),
              <<"VK_SUCCESS">>, <<"VK_ERROR_DEVICE_LOST">>, None, None, TRUE),
      Command(Vk("CreateFence"), "VkResult", ParamsOf(Vk("CreateFence")),
              <<"VK_SUCCESS">>, <<"VK_ERROR_DEVICE_LOST">>, None, None, FALSE) }

ExtA == <<"V", "K", "_", "KHR_maintenance1">>
ExtB == <<"V", "K", "_", "EXT_debug_report">>
ExtC == <<"V", "K", "_", "NV_glsl_shader">>
Version11 == <<"V", "K", "_", "VERSION", "_1_1">>
ExtTarget == <<"V", "K", "_", "EXT_debug_utils">>

TargetChoices == { None, <<>>, Version11, ExtTarget }

SpecialUseChoices == { None, <<>>, <<"cad">>, <<"cad", "debugging">> }

FullExtPool ==
    { Extension(ExtA, p, o, d, su) :
        p \in TargetChoices, o \in TargetChoices, d \in TargetChoices,
        su \in SpecialUseChoices }

CoreExtPool ==
    { Extension(ExtA, Version11, None, None, None),
      Extension(ExtA, Version11, ExtTarget, None, <<"cad", "debugging">>),
      Extension(ExtB, None, None, ExtTarget, <<"debugging">>),
      Extension(ExtB, None, None, None, <<>>),
      Extension(ExtC, None, <<>>, ExtTarget, None),
      Extension(ExtC, None, None, None, None) }

\* A dict keyed by name holds each name once.
UniqueNames(s) == \A a, b \in 1..Len(s) : a # b => s[a].name # s[b].name

ListsUpTo(S, n) == { s \in UNION { [1..k -> S] : k \in 0..n } : UniqueNames(s) }

CommandLists == ListsUpTo(CorePool, MaxCmds) \cup { <<c>> : c \in FullPool }

ExtensionLists == ListsUpTo(CoreExtPool, MaxExts) \cup { <<e>> : e \in FullExtPool }

DefaultCommands ==
    << Command(Vk("CreateFence"), "VkResult", ParamsOf(Vk("CreateFence")),
               <<"VK_SUCCESS">>, <<"VK_ERROR_DEVICE_LOST">>, None, G1, TRUE),
       Command(Vk("CmdPipelineBarrier"), "void", ParamsOf(Vk("CmdPipelineBarrier")),
               None, None, None, None, TRUE) >>

DefaultExtensions ==
    << Extension(ExtA, Version11, None, None, <<"cad">>),
       Extension(ExtC, None, None, None, None) >>

HeaderFile == "best_practices.h"
SourceFile == "best_practices.cpp"
OtherFile  == "best_practices_other.h"

\* ------------------------------------------------------------------- state
VARIABLES
    vk,               \* the Registry: [commands, extensions], read-only
    filename,         \* self.filename
    no_autogen_list,  \* self.no_autogen_list
    pc,               \* where generate() is
    pending,          \* the filtered Commands the emitter iterates over
    idx,              \* how many of pending have been emitted
    current_guard,    \* guard_helper.current_guard
    out,              \* the emitter's local list of strings
    written,          \* the texts passed to self.write() by this call
    runs,             \* generate() calls started on this instance
    previous          \* [pc, written] at the end of the previous call

vars == << vk, filename, no_autogen_list, pc, pending, idx, current_guard,
           out, written, runs, previous >>

\* ----------------------------------------------------------- generate()
Banner == << "// *** THIS FILE IS GENERATED - DO NOT EDIT ***",
             "// See best_practices_generator.py for modifications",
             "/* Copyright */", "\n" >>

\* A variant that drops a name it finds already listed.
RECURSIVE ExclusionPass_Toggle(_, _)
ExclusionPass_Toggle(list, commands) ==
    IF commands = <<>> THEN list
    ELSE LET command == Head(commands)
             Other(n) == n # command.name
             Flip(l) == IF InSeq(command.name, l)
                        THEN SelectSeq(l, Other) ELSE Append(l, command.name)
             l1 == IF command.returnType # "VkResult" THEN Flip(list) ELSE list
             l2 == IF command.errorCodes = None
                      /\ ~hasNonVkSuccess(command.successCodes)
                   THEN Flip(l1) ELSE l1
         IN  ExclusionPass_Toggle(l2, Tail(commands))

\* The first pass over the Commands, which grows the exclusion list.
RECURSIVE ExclusionPass(_, _)
ExclusionPass(list, commands) ==
    IF commands = <<>> THEN list
    ELSE LET command == Head(commands)
             l1 == IF command.returnType # "VkResult"
                   THEN Append(list, command.name) ELSE list
             l2 == IF command.errorCodes = None
                      /\ ~hasNonVkSuccess(command.successCodes)
                   THEN Append(l1, command.name) ELSE l1
         IN  ExclusionPass(l2, Tail(commands))

\* A variant without the filter.
Autogenerated_Unfiltered(commands, list) == commands

\* [x for x in self.vk.commands.values() if x.name not in self.no_autogen_list]
RECURSIVE Autogenerated(_, _)
Autogenerated(commands, list) ==
    IF commands = <<>> THEN <<>>
    ELSE (IF InSeq(Head(commands).name, list) THEN <<>> ELSE <<Head(commands)>>)
         \o Autogenerated(Tail(commands), list)

\* PlatformGuardHelper.add_guard(guard, extra_newline): the strings it returns.
\* It closes the open block when the guard changes, and opens one for a new
\* guard that is present.
AddGuard(current, guard, extra_newline) ==
    (IF current # guard /\ current # None
     THEN << <<"#endif  // ">> \o current \o <<"\n">> >> ELSE <<>>)
    \o (IF extra_newline THEN << <<"\n">> >> ELSE <<>>)
    \o (IF current # guard /\ guard # None
        THEN << <<"#ifdef ">> \o guard \o <<"\n">> >> ELSE <<>>)

\* A variant that splits at another marker.
PrototypeParts_OtherMarker(command) == Split(command.cPrototype, <<"VKAPI_ATTR ">>)

\* command.cPrototype.split("VKAPI_CALL ")
PrototypeParts(command) == Split(command.cPrototype, <<"VKAPI_CALL ">>)

\* Whether [1] of the split exists (otherwise Python raises IndexError).
HasCallMarker(command) == Len(PrototypeParts(command)) >= 2

RecordObjTail == << ", ", "const RecordObject& record_obj", ")", " {", "\n" >>

StateDataTail == << ", ", "void* state_data", ")" >>

\* A variant that adds the extra parameter before the record_obj parameter.
HeaderPrototype_ExtraFirst(command) ==
    LET p0 == PrototypeParts(command)[2]
        p1 == <<"void PostCallRecord">> \o Drop(p0, 2)
        px == IF InSeq(command.name, extra_parameter_list)
              THEN Replace(p1, <<")">>, StateDataTail)
              ELSE p1
        p2 == Replace(px, <<")", ";">>, RecordObjTail)
    IN  Replace(p2, <<")", " {">>, <<")", " override;", "\n">>)

\* The declaration of generateHeader for one Command.
HeaderPrototype(command) ==
    LET p0 == PrototypeParts(command)[2]
        p1 == <<"void PostCallRecord">> \o Drop(p0, 2)
        p2 == Replace(p1, <<")", ";">>, RecordObjTail)
        p3 == Replace(p2, <<")", " {">>, <<")", " override;", "\n">>)
    IN  IF InSeq(command.name, extra_parameter_list)
        THEN Replace(p3, <<")">>, StateDataTail)
        ELSE p3

\* The guard strings and the declaration appended for one Command.
HeaderChunks(current, command) ==
    AddGuard(current, command.protect, FALSE) \o << HeaderPrototype(command) >>

\* A variant without the final call.
HeaderClose_Forgotten(current) == <<>>

\* The final guard_helper.add_guard(None) of generateHeader.
HeaderClose(current) == AddGuard(current, None, FALSE)

\* ', '.join(paramList) of generateSource; forAlias = TRUE is the list rebuilt for
\* the forwarding call.
SourceParams(command, forAlias) ==
    LET pl  == Append(command.params, "record_obj")
        pl2 == IF ~forAlias /\ InSeq(command.name, extra_parameter_list)
               THEN Append(pl, "state_data") ELSE pl
    IN  Join(pl2, <<", ">>)

\* The definition signature of generateSource for one Command.
SourcePrototype(command) ==
    LET p0 == PrototypeParts(command)[2]
        p1 == <<"void BestPractices::PostCallRecord">> \o Drop(p0, 2)
        p2 == Replace(p1, <<")", ";">>, RecordObjTail)
    IN  IF InSeq(command.name, extra_parameter_list)
        THEN Replace(p2, <<")">>, StateDataTail)
        ELSE p2

PositiveBranch ==
    << "\n", "if (record_obj.result > VK_SUCCESS) {",
       "LogPositiveSuccessCode(record_obj);", "return;", "}" >>

ErrorBranch ==
    << "\n", "if (record_obj.result < VK_SUCCESS) {", "LogErrorCode(record_obj);", "}" >>

\* Python truthiness of command.alias
IsAlias(command) == command.alias # None /\ command.alias # <<>>

\* A variant that keeps the list of parameters built for the signature.
AliasBody_SameParams(command) ==
    << <<"PostCallRecord">> \o Drop(command.alias, 2) \o <<"(">>
       \o SourceParams(command, FALSE) \o <<")", ";">> >>

\* The body of an alias: the forwarding call, with the parameter list rebuilt.
AliasBody(command) ==
    << <<"PostCallRecord">> \o Drop(command.alias, 2) \o <<"(">>
       \o SourceParams(command, TRUE) \o <<")", ";">> >>

BaseCall(command) ==
    <<"ValidationStateTracker::PostCallRecord">> \o Drop(command.name, 2)
    \o <<"(">> \o SourceParams(command, FALSE) \o <<")", ";", "\n">>

ManualCall(command) ==
    <<"ManualPostCallRecord">> \o Drop(command.name, 2)
    \o <<"(">> \o SourceParams(command, FALSE) \o <<")", ";", "\n">>

\* A variant with the two result branches in the other order.
PlainBody_ErrorFirst(command) ==
    << BaseCall(command) >>
    \o (IF InSeq(command.name, manual_postcallrecord_list)
        THEN << ManualCall(command) >> ELSE <<>>)
    \o (IF command.errorCodes # None THEN <<ErrorBranch>> ELSE <<>>)
    \o (IF hasNonVkSuccess(command.successCodes) THEN <<PositiveBranch>> ELSE <<>>)

\* The body of a Command that is no alias.
PlainBody(command) ==
    << BaseCall(command) >>
    \o (IF InSeq(command.name, manual_postcallrecord_list)
        THEN << ManualCall(command) >> ELSE <<>>)
    \o (IF hasNonVkSuccess(command.successCodes) THEN <<PositiveBranch>> ELSE <<>>)
    \o (IF command.errorCodes # None THEN <<ErrorBranch>> ELSE <<>>)

\* The strings appended between the signature and the closing brace.
SourceBody(command) ==
    IF IsAlias(command) THEN AliasBody(command) ELSE PlainBody(command)

SourceChunks(current, command) ==
    AddGuard(current, command.protect, TRUE)
    \o << SourcePrototype(command) >>
    \o SourceBody(command)
    \o << <<"}\n">> >>

\* The final guard_helper.add_guard(None, extra_newline=True) of generateSource.
SourceClose(current) == AddGuard(current, None, TRUE)

\* The target of a deprecation row as rendered.
RenderTarget(target) ==
    IF Len(target) = 0 THEN <<"vvl::Extension::Empty">>
    ELSE IF InSeq("VERSION", target) THEN <<"vvl::Version::_">> \o target
    ELSE <<"vvl::Extension::">> \o Drop(target, 3)

DeprecationRow(extension, reason, target) ==
    <<"    {vvl::Extension::">> \o Drop(extension.name, 3)
    \o <<", {", reason, ", {">> \o RenderTarget(target) \o <<"}}},\n">>

\* A variant that tests obsoletedBy before promotedTo.
RECURSIVE DeprecationRows_ObsoletedFirst(_)
DeprecationRows_ObsoletedFirst(extensions) ==
    IF extensions = <<>> THEN <<>>
    ELSE LET extension == Head(extensions)
             row == IF extension.obsoletedBy # None
                    THEN << DeprecationRow(extension, "DeprecationReason::Obsoleted",
                                           extension.obsoletedBy) >>
                    ELSE IF extension.promotedTo # None
                    THEN << DeprecationRow(extension, "DeprecationReason::Promoted",
                                           extension.promotedTo) >>
                    ELSE IF extension.deprecatedBy # None
                    THEN << DeprecationRow(extension, "DeprecationReason::Deprecated",
                                           extension.deprecatedBy) >>
                    ELSE <<>>
         IN  row \o DeprecationRows_ObsoletedFirst(Tail(extensions))

\* The rows of the deprecation table: the first loop over the Extensions.
RECURSIVE DeprecationRows(_)
DeprecationRows(extensions) ==
    IF extensions = <<>> THEN <<>>
    ELSE LET extension == Head(extensions)
             row == IF extension.promotedTo # None
                    THEN << DeprecationRow(extension, "DeprecationReason::Promoted",
                                           extension.promotedTo) >>
                    ELSE IF extension.obsoletedBy # None
                    THEN << DeprecationRow(extension, "DeprecationReason::Obsoleted",
                                           extension.obsoletedBy) >>
                    ELSE IF extension.deprecatedBy # None
                    THEN << DeprecationRow(extension, "DeprecationReason::Deprecated",
                                           extension.deprecatedBy) >>
                    ELSE <<>>
         IN  row \o DeprecationRows(Tail(extensions))

\* A variant that joins the tags with a bare comma.
SpecialUseRow_BareComma(extension) ==
    <<"    {vvl::Extension::">> \o Drop(extension.name, 3)
    \o <<", \"">> \o Join(extension.specialUse, <<",">>) \o <<"\"},\n">>

SpecialUseRow(extension) ==
    <<"    {vvl::Extension::">> \o Drop(extension.name, 3)
    \o <<", \"">> \o Join(extension.specialUse, <<", ">>) \o <<"\"},\n">>

\* The rows of the special-use table: the second loop over the Extensions.
RECURSIVE SpecialUseRows(_)
SpecialUseRows(extensions) ==
    IF extensions = <<>> THEN <<>>
    ELSE (IF Head(extensions).specialUse # None
          THEN << SpecialUseRow(Head(extensions)) >> ELSE <<>>)
         \o SpecialUseRows(Tail(extensions))

DeprecationOpen ==
    << "#include \"chassis.h\"",
       "DeprecationData GetDeprecatedData(vvl::Extension extension_name) {",
       "deprecated_extensions = {", "\n" >>

SpecialUseOpen ==
    << "    };", "return deprecated", "}",
       "std::string GetSpecialUse(vvl::Extension extension_name) {",
       "special_use_extensions = {", "\n" >>

SpecialUseClose == << "    };", "return special_use", "}", "\n" >>

\* Everything generateSource appends before its loop over the Commands.
SourceTables(extensions) ==
    <<DeprecationOpen>> \o DeprecationRows(extensions)
    \o <<SpecialUseOpen>> \o SpecialUseRows(extensions)
    \o <<SpecialUseClose>>

\* ----------------------------------------------------------------- actions
Init ==
    /\ \/ /\ filename \in {HeaderFile, SourceFile, OtherFile}
          /\ \E cs \in CommandLists :
                vk = [commands |-> cs, extensions |-> DefaultExtensions]
       \/ /\ filename = SourceFile
          /\ \E es \in ExtensionLists :
                vk = [commands |-> DefaultCommands, extensions |-> es]
    /\ no_autogen_list = InitialNoAutogenList
    /\ pc = "idle"
    /\ pending = <<>>
    /\ idx = 0
    /\ current_guard = None
    /\ out = <<>>
    /\ written = <<>>
    /\ runs = 0
    /\ previous = [pc |-> "idle", written |-> <<>>]

\* generate() is called: the banner, the NOLINTBEGIN line and the exclusion pass.
Generate ==
    /\ pc \in {"idle", "done", "failed"}
    /\ runs < MaxRuns
    /\ runs' = runs + 1
    /\ previous' = [pc |-> pc, written |-> written]
    /\ written' = << Banner, <<"// NOLINTBEGIN">> >>
    /\ no_autogen_list' = ExclusionPass(no_autogen_list, vk.commands)
    /\ pc' = "dispatch"
    /\ pending' = <<>>
    /\ idx' = 0
    /\ current_guard' = None
    /\ out' = <<>>
    /\ UNCHANGED << vk, filename >>

\* generateHeader() starts: its list, its guard helper, the filtered Commands.
GenerateHeader ==
    /\ pc = "dispatch"
    /\ filename = HeaderFile
    /\ out' = <<>>
    /\ current_guard' = None
    /\ pending' = Autogenerated(vk.commands, no_autogen_list)
    /\ idx' = 0
    /\ pc' = "header"
    /\ UNCHANGED << vk, filename, no_autogen_list, written, runs, previous >>

\* One iteration of the loop of generateHeader.
HeaderCommand ==
    /\ pc = "header"
    /\ idx < Len(pending)
    /\ HasCallMarker(pending[idx + 1])
    /\ out' = out \o HeaderChunks(current_guard, pending[idx + 1])
    /\ current_guard' = pending[idx + 1].protect
    /\ idx' = idx + 1
    /\ UNCHANGED << vk, filename, no_autogen_list, pc, pending, written, runs, previous >>

\* The end of generateHeader: the forced close and the write of the text.
HeaderEnd ==
    /\ pc = "header"
    /\ idx = Len(pending)
    /\ written' = Append(written, Flatten(out \o HeaderClose(current_guard)))
    /\ current_guard' = None
    /\ out' = <<>>
    /\ pc' = "epilogue"
    /\ UNCHANGED << vk, filename, no_autogen_list, pending, idx, runs, previous >>

\* generateSource() starts: the two tables, then the filtered Commands.
GenerateSource ==
    /\ pc = "dispatch"
    /\ filename = SourceFile
    /\ out' = SourceTables(vk.extensions)
    /\ current_guard' = None
    /\ pending' = Autogenerated(vk.commands, no_autogen_list)
    /\ idx' = 0
    /\ pc' = "source"
    /\ UNCHANGED << vk, filename, no_autogen_list, written, runs, previous >>

\* One iteration of the loop of generateSource.
SourceCommand ==
    /\ pc = "source"
    /\ idx < Len(pending)
    /\ HasCallMarker(pending[idx + 1])
    /\ out' = out \o SourceChunks(current_guard, pending[idx + 1])
    /\ current_guard' = pending[idx + 1].protect
    /\ idx' = idx + 1
    /\ UNCHANGED << vk, filename, no_autogen_list, pc, pending, written, runs, previous >>

\* The end of generateSource.
SourceEnd ==
    /\ pc = "source"
    /\ idx = Len(pending)
    /\ written' = Append(written, Flatten(out \o SourceClose(current_guard)))
    /\ current_guard' = None
    /\ out' = <<>>
    /\ pc' = "epilogue"
    /\ UNCHANGED << vk, filename, no_autogen_list, pending, idx, runs, previous >>

\* The [1] of the split raises IndexError, which leaves generate(): the
\* emitter's list is lost, and neither its text nor NOLINTEND is written.
EmitterFails ==
    /\ pc \in {"header", "source"}
    /\ idx < Len(pending)
    /\ ~HasCallMarker(pending[idx + 1])
    /\ pc' = "failed"
    /\ out' = <<>>
    /\ current_guard' = None
    /\ UNCHANGED << vk, filename, no_autogen_list, pending, idx, written, runs, previous >>

\* Any other file name: the diagnostic line.
GenerateOther ==
    /\ pc = "dispatch"
    /\ filename \notin {HeaderFile, SourceFile}
    /\ written' = Append(written, <<"\n", "File name ", filename, " has no code to generate", "\n">>)
    /\ pc' = "epilogue"
    /\ UNCHANGED << vk, filename, no_autogen_list, pending, idx, current_guard, out,
                    runs, previous >>

\* The last line of generate().
Finish ==
    /\ pc = "epilogue"
    /\ written' = Append(written, <<"// NOLINTEND">>)
    /\ pc' = "done"
    /\ UNCHANGED << vk, filename, no_autogen_list, pending, idx, current_guard, out,
                    runs, previous >>

Next ==
    \/ Generate
    \/ GenerateHeader
    \/ HeaderCommand
    \/ HeaderEnd
    \/ GenerateSource
    \/ SourceCommand
    \/ SourceEnd
    \/ EmitterFails
    \/ GenerateOther
    \/ Finish

Spec == Init /\ [][Next]_vars

\* ------------------------------------------------- reading the emitted text
Emitters == {HeaderFile, SourceFile}

\* The token that starts a declaration (header) or a definition (source).
DeclToken ==
    IF filename = HeaderFile THEN "void PostCallRecord"
    ELSE "void BestPractices::PostCallRecord"

NotExcluded(c) == ~InSeq(c.name, no_autogen_list)

\* The Commands whose name is not in the exclusion list, in Registry order.
EligibleCommands == SelectSeq(vk.commands, NotExcluded)

\* The Commands the emitter has gone through, and the text it has produced:
\* its list so far while it runs, the text it wrote once it has returned.
Prefix(s, n) == SubSeq(s, 1, IF n < Len(s) THEN n ELSE Len(s))

EmittedCommands ==
    IF pc \in {"header", "source"} THEN Prefix(EligibleCommands, idx)
    ELSE IF pc \in {"epilogue", "done"} /\ filename \in Emitters THEN EligibleCommands
    ELSE <<>>

EmittedText ==
    IF pc \in {"header", "source"} THEN Flatten(out)
    ELSE IF pc \in {"epilogue", "done"} /\ filename \in Emitters THEN written[3]
    ELSE <<>>

Returned == pc \in {"epilogue", "done"} /\ filename \in Emitters

Count(tok, text) == Cardinality({ k \in 1..Len(text) : text[k] = tok })

\* A set of positions as an increasing sequence.
RECURSIVE Ascending(_)
Ascending(S) ==
    IF S = {} THEN <<>>
    ELSE LET m == CHOOSE x \in S : \A y \in S : x <= y
         IN  <<m>> \o Ascending(S \ {m})

\* The tokens that follow each occurrence of tok, in order.
TokensAfter(text, tok) ==
    LET at == Ascending({ k \in 1..(Len(text) - 1) : text[k] = tok })
    IN  [ n \in 1..Len(at) |-> text[at[n] + 1] ]

\* From the declaring token of the Command to the end of its signature line.
SignatureOf(text, c) ==
    LET k == Find(text, <<DeclToken, c.name[3]>>, 1)
    IN  SubSeq(text, k, Find(text, <<"\n">>, k))

\* Between the signature line of a definition and its closing brace.
BodyOf(text, c) ==
    LET k == Find(text, <<DeclToken, c.name[3]>>, 1)
    IN  SubSeq(text, Find(text, <<"\n">>, k) + 1, Find(text, <<"}\n">>, k) - 1)

RECURSIVE NamesOf(_)
NamesOf(commands) ==
    IF commands = <<>> THEN <<>>
    ELSE <<Head(commands).name[3]>> \o NamesOf(Tail(commands))

\* --------------------------------------------------------------------- C1
ManualExceptions ==
    { Vk("EnumerateInstanceVersion"), Vk("CreateValidationCacheEXT"),
      Vk("DestroyValidationCacheEXT"), Vk("MergeValidationCachesEXT"),
      Vk("GetValidationCacheDataEXT") }

\* The success set is "meaningful" unless absent, empty or just VK_SUCCESS.
MeaningfulSuccess(sc) == ~(sc = None \/ sc = <<>> \/ sc = <<"VK_SUCCESS">>)

ShouldBeExcluded(c) ==
    \/ c.name \in ManualExceptions
    \/ c.returnType # "VkResult"
    \/ (c.errorCodes = None /\ ~MeaningfulSuccess(c.successCodes))

\* C1: after the exclusion pass, a Command's name is in the exclusion list
\* exactly when it is one of the five manual exceptions, or its return type is
\* not VkResult, or it has no error codes and no meaningful success codes.
C1_ExclusionExact ==
    pc # "idle" =>
        \A k \in 1..Len(vk.commands) :
            InSeq(vk.commands[k].name, no_autogen_list) <=> ShouldBeExcluded(vk.commands[k])

\* A single non-VK_SUCCESS code without error codes keeps the Command, next to
\* a Command excluded by its return type.
C1_Witness ==
    /\ pc = "dispatch"
    /\ \E j, k \in 1..Len(vk.commands) :
        /\ vk.commands[j].errorCodes = None
        /\ vk.commands[j].successCodes = <<"VK_INCOMPLETE">>
        /\ ~InSeq(vk.commands[j].name, no_autogen_list)
        /\ vk.commands[k].returnType = "void"
        /\ InSeq(vk.commands[k].name, no_autogen_list)

\* --------------------------------------------------------------------- C2
\* C2: the emitter produces exactly one declaration (header) or definition
\* (source) per Command that is not excluded, in Registry order, and none for
\* an excluded Command.
C2_OnePerEligible ==
    TokensAfter(EmittedText, DeclToken) = NamesOf(EmittedCommands)

C2_Witness ==
    /\ pc = "done"
    /\ filename = SourceFile
    /\ Len(vk.commands) = 2
    /\ Len(EligibleCommands) = 1
    /\ TokensAfter(written[3], DeclToken) = <<vk.commands[2].name[3]>>

\* --------------------------------------------------------------------- C3
HasAlias(c) == c.alias # None

ForwardingCall(c) ==
    <<"PostCallRecord">> \o Drop(c.alias, 2) \o <<"(">>
    \o Join(c.params \o <<"record_obj">>, <<", ">>) \o <<")", ";">>

\* C3: the body of the definition of an eligible alias Command is exactly the
\* forwarding call PostCallRecord<alias without its prefix>(own parameters,
\* record_obj), whatever its codes and its membership in the manual lists.
C3_AliasForwardsOnly ==
    filename = SourceFile =>
        \A k \in 1..Len(EmittedCommands) :
            HasAlias(EmittedCommands[k]) =>
                BodyOf(EmittedText, EmittedCommands[k]) = ForwardingCall(EmittedCommands[k])

\* An alias in both manual lists, with a second success code and an error code.
C3_Witness ==
    /\ pc = "done"
    /\ filename = SourceFile
    /\ \E k \in 1..Len(EligibleCommands) :
        LET c == EligibleCommands[k] IN
        /\ HasAlias(c)
        /\ c.name = Vk("AllocateDescriptorSets")
        /\ c.successCodes = <<"VK_SUCCESS", "VK_INCOMPLETE">>
        /\ c.errorCodes # None
        /\ BodyOf(written[3], c) = ForwardingCall(c)

\* --------------------------------------------------------------------- C4
Statements ==
    { "ValidationStateTracker::PostCallRecord", "ManualPostCallRecord", "PostCallRecord",
      "if (record_obj.result > VK_SUCCESS) {", "LogPositiveSuccessCode(record_obj);",
      "return;", "if (record_obj.result < VK_SUCCESS) {", "LogErrorCode(record_obj);" }

IsStatement(tok) == tok \in Statements

ExpectedStatements(c) ==
    <<"ValidationStateTracker::PostCallRecord">>
    \o (IF c.name \in { manual_postcallrecord_list[k] : k \in 1..Len(manual_postcallrecord_list) }
        THEN <<"ManualPostCallRecord">> ELSE <<>>)
    \o (IF MeaningfulSuccess(c.successCodes)
        THEN << "if (record_obj.result > VK_SUCCESS) {",
                "LogPositiveSuccessCode(record_obj);", "return;" >>
        ELSE <<>>)
    \o (IF c.errorCodes # None
        THEN << "if (record_obj.result < VK_SUCCESS) {", "LogErrorCode(record_obj);" >>
        ELSE <<>>)

\* C4: the body of the definition of an eligible Command without alias is, in
\* this order: the base call; the manual call iff the name is in the
\* manual-postcall list; the positive branch with its early return iff the
\* success codes are meaningful; the error branch iff error codes are declared.
C4_BodyOrder ==
    filename = SourceFile =>
        \A k \in 1..Len(EmittedCommands) :
            ~HasAlias(EmittedCommands[k]) =>
                SelectSeq(BodyOf(EmittedText, EmittedCommands[k]), IsStatement)
                    = ExpectedStatements(EmittedCommands[k])

\* Success codes {VK_SUCCESS, VK_INCOMPLETE} and one error code: both branches,
\* the positive one first, after the manual call.
C4_Witness ==
    /\ pc = "done"
    /\ filename = SourceFile
    /\ \E k \in 1..Len(EligibleCommands) :
        LET c == EligibleCommands[k] IN
        /\ ~HasAlias(c)
        /\ c.name = Vk("QueueSubmit")
        /\ c.successCodes = <<"VK_SUCCESS", "VK_INCOMPLETE">>
        /\ c.errorCodes = <<"VK_ERROR_DEVICE_LOST">>
        /\ SelectSeq(BodyOf(written[3], c), IsStatement)
             = << "ValidationStateTracker::PostCallRecord", "ManualPostCallRecord",
                  "if (record_obj.result > VK_SUCCESS) {",
                  "LogPositiveSuccessCode(record_obj);", "return;",
                  "if (record_obj.result < VK_SUCCESS) {", "LogErrorCode(record_obj);" >>

\* --------------------------------------------------------------------- C5
\* The guard of the emitted Command whose name token is tok.
GuardOfName(tok) ==
    LET k == CHOOSE k \in 1..Len(vk.commands) : vk.commands[k].name[3] = tok
    IN  vk.commands[k].protect

\* One pass over the guard markers and the declaring tokens of the text, at
\* the positions at[n..]: which block is open, how many were opened, and
\* whether every marker and every Command met the block it should.
RECURSIVE GuardScan(_, _, _, _, _, _)
GuardScan(text, at, n, open, opened, ok) ==
    IF n > Len(at) THEN [open |-> open, opened |-> opened, ok |-> ok]
    ELSE LET tok == text[at[n]]
             arg == text[at[n] + 1]
         IN  CASE tok = "#ifdef " ->
                    GuardScan(text, at, n + 1, <<arg>>, opened + 1, ok /\ open = None)
               [] tok = "#endif  // " ->
                    GuardScan(text, at, n + 1, None, opened, ok /\ open = <<arg>>)
               [] OTHER ->
                    GuardScan(text, at, n + 1, open, opened, ok /\ open = GuardOfName(arg))

GuardState(text) ==
    GuardScan(text,
              Ascending({ k \in 1..(Len(text) - 1) :
                            text[k] \in {"#ifdef ", "#endif  // ", DeclToken} }),
              1, None, 0, TRUE)

\* The number of maximal runs of consecutive Commands with one present guard.
GuardedGroups(commands) ==
    Cardinality({ k \in 1..Len(commands) :
                    /\ commands[k].protect # None
                    /\ (k = 1 \/ commands[k - 1].protect # commands[k].protect) })

\* C5: during the pass at most one guard block is open; a block is opened or
\* closed only where the guard of the next emitted Command differs from the
\* open one, so a run of Commands with one present guard shares one
\* open/close pair; a Command without guard is outside any block; and once the
\* emitter has returned no block is open.
C5_GuardBlocks ==
    filename \in Emitters =>
        LET r == GuardState(EmittedText) IN
        /\ r.ok
        /\ r.opened = GuardedGroups(EmittedCommands)
        /\ pc \in {"header", "source"} => r.open = current_guard
        /\ Returned => r.open = None /\ Count("#endif  // ", EmittedText) = r.opened

\* Two adjacent Commands with the same guard, the last one of the pass.
C5_Witness ==
    /\ pc = "done"
    /\ filename = HeaderFile
    /\ Len(EligibleCommands) = 2
    /\ EligibleCommands[1].protect = G1
    /\ EligibleCommands[2].protect = G1
    /\ Count("#ifdef ", written[3]) = 1
    /\ Count("#endif  // ", written[3]) = 1

\* --------------------------------------------------------------------- C6
HasLifecycle(e) == e.promotedTo # None \/ e.obsoletedBy # None \/ e.deprecatedBy # None

ExpectedDeprecation(e) ==
    LET reason == IF e.promotedTo # None THEN "DeprecationReason::Promoted"
                  ELSE IF e.obsoletedBy # None THEN "DeprecationReason::Obsoleted"
                  ELSE "DeprecationReason::Deprecated"
        target == IF e.promotedTo # None THEN e.promotedTo
                  ELSE IF e.obsoletedBy # None THEN e.obsoletedBy
                  ELSE e.deprecatedBy
    IN  Drop(e.name, 3) \o <<", {", reason, ", {">> \o RenderTarget(target) \o <<"}}},\n">>

RECURSIVE ExpectedDeprecations(_)
ExpectedDeprecations(es) ==
    IF es = <<>> THEN <<>>
    ELSE << ExpectedDeprecation(Head(es)) >> \o ExpectedDeprecations(Tail(es))

RowStart == <<"    {vvl::Extension::">>

\* The rows between the opening of a table and its closing "    };", each
\* without the token that starts it.
TableRows(text, opening) ==
    LET a == Find(text, <<opening, "\n">>, 1) + 2
        z == Find(text, <<"    };">>, a)
    IN  Tail(Split(SubSeq(text, a, z - 1), RowStart))

\* The tables are in the list from the start of generateSource on.
SourceText == IF filename = SourceFile THEN EmittedText ELSE <<>>

\* C6: the deprecation table has, in Registry order, one row per Extension
\* with promotedTo, obsoletedBy or deprecatedBy set and none for the others;
\* the reason and the target come from the first of these that is set.
C6_DeprecationTable ==
    SourceText # <<>> =>
        TableRows(SourceText, "deprecated_extensions = {")
            = ExpectedDeprecations(SelectSeq(vk.extensions, HasLifecycle))

\* An Extension with promotedTo and obsoletedBy both set reports Promoted.
C6_Witness ==
    /\ pc = "done"
    /\ filename = SourceFile
    /\ Len(vk.extensions) = 2
    /\ vk.extensions[1].promotedTo = Version11
    /\ vk.extensions[1].obsoletedBy = ExtTarget
    /\ ~HasLifecycle(vk.extensions[2])
    /\ TableRows(written[3], "deprecated_extensions = {")
         = << << "KHR_maintenance1", ", {", "DeprecationReason::Promoted", ", {",
                 "vvl::Version::_", "V", "K", "_", "VERSION", "_1_1", "}}},\n" >> >>

\* -------------------------------------------------------------------- C10
SpecialRow(e) == Drop(e.name, 3) \o <<", \"">> \o Join(e.specialUse, <<", ">>) \o <<"\"},\n">>

RECURSIVE SpecialRowsOf(_)
SpecialRowsOf(es) ==
    IF es = <<>> THEN <<>> ELSE << SpecialRow(Head(es)) >> \o SpecialRowsOf(Tail(es))

HasTags(e) == e.specialUse # None /\ e.specialUse # <<>>

HasTagList(e) == e.specialUse # None

\* C10 as stated: the special-use table has one row per Extension with a
\* non-empty tag list, the tags joined with ", ", and no row for an Extension
\* without tags, an empty tag list included.
C10_Original ==
    (pc = "done" /\ filename = SourceFile) =>
        TableRows(written[3], "special_use_extensions = {")
            = SpecialRowsOf(SelectSeq(vk.extensions, HasTags))

\* C10 as amended: the special-use table has, in Registry order, one row per
\* Extension whose tag list is present, the tags joined with ", "; a present
\* but empty list gives a row with the empty string; an absent list no row.
C10_SpecialUseTable ==
    SourceText # <<>> =>
        TableRows(SourceText, "special_use_extensions = {")
            = SpecialRowsOf(SelectSeq(vk.extensions, HasTagList))

\* [cad, debugging] gives "cad, debugging"; the empty list gives "".
C10_Witness ==
    /\ pc = "done"
    /\ filename = SourceFile
    /\ Len(vk.extensions) = 2
    /\ vk.extensions[1].specialUse = <<"cad", "debugging">>
    /\ vk.extensions[2].specialUse = <<>>
    /\ TableRows(written[3], "special_use_extensions = {")
         = << << "KHR_maintenance1", ", \"", "cad", ", ", "debugging", "\"},\n" >>,
              << "EXT_debug_report", ", \"", "\"},\n" >> >>

\* --------------------------------------------------------------------- C7
MarkerPresent(c) == InSeq("VKAPI_CALL ", c.cPrototype)

AliasDangles(c) ==
    /\ HasAlias(c)
    /\ \A k \in 1..Len(vk.commands) : vk.commands[k].name # c.alias

SomeEligible(P(_)) == \E k \in 1..Len(EligibleCommands) : P(EligibleCommands[k])

MarkerMissing(c) == ~MarkerPresent(c)

Ended == pc \in {"done", "failed"}

OnlyPreamble == written = << Banner, <<"// NOLINTBEGIN">> >>

\* C7 as stated: whenever an eligible Command lacks the "VKAPI_CALL " marker
\* or has an alias that names no Command of the Registry, generate() fails
\* and writes no emitter text.
C7_Original ==
    (Ended /\ filename \in Emitters
        /\ (SomeEligible(MarkerMissing) \/ SomeEligible(AliasDangles)))
    => (pc = "failed" /\ OnlyPreamble)

\* C7 as amended: for best_practices.h and best_practices.cpp, generate()
\* fails exactly when an eligible Command lacks the "VKAPI_CALL " marker, and
\* then only the banner and the NOLINTBEGIN line have been written; an alias
\* that names no Command of the Registry is not detected: generate() completes
\* and the definition forwards to PostCallRecord<alias without its prefix>.
C7_FailFast ==
    /\ (Ended /\ filename \in Emitters) =>
          /\ pc = "failed" <=> SomeEligible(MarkerMissing)
          /\ pc = "failed" => OnlyPreamble
    /\ (Ended /\ filename \notin Emitters) => pc = "done"
    /\ (pc = "done" /\ filename = SourceFile) =>
          \A k \in 1..Len(EligibleCommands) :
              AliasDangles(EligibleCommands[k]) =>
                  BodyOf(written[3], EligibleCommands[k])[2] = EligibleCommands[k].alias[3]

\* A completed run whose only eligible Command has a dangling alias.
C7_Witness ==
    /\ pc = "done"
    /\ filename = SourceFile
    /\ SomeEligible(AliasDangles)
    /\ Len(written) = 4

\* --------------------------------------------------------------------- C8
Names(list) == { list[k] : k \in 1..Len(list) }

\* C8: a second (and any later) generate() on the same instance and the
\* unchanged Registry ends as the previous one did and has written exactly the
\* same texts, although the exclusion list has grown: the set of excluded
\* names is the one the first pass left.
C8_Regenerate ==
    /\ (Ended /\ runs >= 2) => (pc = previous.pc /\ written = previous.written)
    /\ runs >= 1 =>
          Names(no_autogen_list) = ManualExceptions \cup
              { vk.commands[k].name : k \in { j \in 1..Len(vk.commands) :
                                                 ShouldBeExcluded(vk.commands[j]) } }

\* The second run has ended, with names appended twice to the exclusion list.
C8_Witness ==
    /\ pc = "done"
    /\ runs = 2
    /\ filename = SourceFile
    /\ Len(no_autogen_list) > Cardinality(Names(no_autogen_list)) + 1
    /\ Len(EligibleCommands) >= 1
    /\ written = previous.written

\* --------------------------------------------------------------------- C9
NeedsStateData(c) ==
    c.name \in { Vk("CreateShaderModule"), Vk("CreateShadersEXT"),
                 Vk("CreateGraphicsPipelines"), Vk("CreateComputePipelines"),
                 Vk("AllocateDescriptorSets"), Vk("CreateRayTracingPipelinesNV"),
                 Vk("CreateRayTracingPipelinesKHR") }

ExpectedLastParams(c) ==
    << ", ", "const RecordObject& record_obj" >>
    \o (IF NeedsStateData(c) THEN << ", ", "void* state_data" >> ELSE <<>>)

\* C9: the signature of every emitted declaration and definition ends its
\* parameter list with the record_obj parameter, followed by one state_data
\* parameter exactly when the Command is in the extra-parameter list.
C9_TrailingParams ==
    \A k \in 1..Len(EmittedCommands) :
        LET c    == EmittedCommands[k]
            sig  == SignatureOf(EmittedText, c)
            last == Find(sig, <<")">>, 1)
            tail == ExpectedLastParams(c)
        IN  /\ Count(")", sig) = 1
            /\ Count("const RecordObject& record_obj", sig) = 1
            /\ Count("void* state_data", sig) = (IF NeedsStateData(c) THEN 1 ELSE 0)
            /\ SubSeq(sig, last - Len(tail), last - 1) = tail

\* A declaration with and one without the extra parameter.
C9_Witness ==
    /\ pc = "done"
    /\ filename = HeaderFile
    /\ Len(EligibleCommands) = 2
    /\ NeedsStateData(EligibleCommands[1])
    /\ ~NeedsStateData(EligibleCommands[2])
    /\ Count("void* state_data", written[3]) = 1

====
